---- MODULE Spec2Model ----
(***************************************************************************)
(* The file reconciliation engine of the Tiptap CLI                        *)
(* (packages/cli/src/utils/updaters/update-files.ts): updateFiles and the  *)
(* path resolution it rests on.  Strings are TLA+ strings, taken apart     *)
(* with Len and SubSeq, so that the string operations of the source        *)
(* (replace, split, startsWith, the regular expressions, path.join) are    *)
(* computed character by character as the source computes them.           *)
(***************************************************************************)
EXTENDS Integers, Sequences, FiniteSets, TLC

\* ------------------------------------------------------------------------
\* JavaScript string operations
\* ------------------------------------------------------------------------

CharAt(s, i) == SubSeq(s, i, i)

StartsWith(s, p) == Len(s) >= Len(p) /\ SubSeq(s, 1, Len(p)) = p

EndsWith(s, p) == Len(s) >= Len(p) /\ SubSeq(s, Len(s) - Len(p) + 1, Len(s)) = p

\* s.slice(i) with a 1-based index: the rest of s from position i on.
DropTo(s, i) == SubSeq(s, i, Len(s))

\* Whether p occurs in s at (1-based) position i.
OccursAt(s, p, i) == i >= 1 /\ i + Len(p) - 1 <= Len(s) /\ SubSeq(s, i, i + Len(p) - 1) = p

\* The position of the first occurrence of p in s, 0 when there is none
\* (s.indexOf(p) + 1).
RECURSIVE IndexFrom(_, _, _)
IndexFrom(s, p, i) ==
    IF i + Len(p) - 1 > Len(s) THEN 0
    ELSE IF SubSeq(s, i, i + Len(p) - 1) = p THEN i
    ELSE IndexFrom(s, p, i + 1)

IndexOf(s, p) == IndexFrom(s, p, 1)

\* s.includes(p)
Includes(s, p) == IndexOf(s, p) # 0

\* s.replace(p, r) with a string pattern: the first occurrence only.
ReplaceFirst(s, p, r) ==
    LET i == IndexOf(s, p)
    IN  IF i = 0 THEN s ELSE SubSeq(s, 1, i - 1) \o r \o DropTo(s, i + Len(p))

\* s.replace(/p/g, r) for a literal p: every occurrence, left to right, in
\* one pass (the replaced text is not scanned again).
RECURSIVE ReplaceAll(_, _, _)
ReplaceAll(s, p, r) ==
    LET i == IndexOf(s, p)
    IN  IF i = 0 THEN s
        ELSE SubSeq(s, 1, i - 1) \o r \o ReplaceAll(DropTo(s, i + Len(p)), p, r)

\* s.split(sep) for a non-empty separator.
RECURSIVE Split(_, _)
Split(s, sep) ==
    LET i == IndexOf(s, sep)
    IN  IF i = 0 THEN <<s>>
        ELSE <<SubSeq(s, 1, i - 1)>> \o Split(DropTo(s, i + Len(sep)), sep)

\* segs.join(sep)
RECURSIVE Join(_, _)
Join(segs, sep) ==
    IF Len(segs) = 0 THEN ""
    ELSE IF Len(segs) = 1 THEN segs[1]
    ELSE segs[1] \o sep \o Join(Tail(segs), sep)

\* The white space String.prototype.trim removes, as far as the contents of
\* the model use it.
WhiteSpace == {" ", "\t", "\n", "\r"}

RECURSIVE TrimStart(_)
TrimStart(s) ==
    IF Len(s) > 0 /\ CharAt(s, 1) \in WhiteSpace THEN TrimStart(DropTo(s, 2)) ELSE s

RECURSIVE TrimEnd(_)
TrimEnd(s) ==
    IF Len(s) > 0 /\ CharAt(s, Len(s)) \in WhiteSpace
    THEN TrimEnd(SubSeq(s, 1, Len(s) - 1))
    ELSE s

\* s.trim()
Trim(s) == TrimEnd(TrimStart(s))

\* ------------------------------------------------------------------------
\* Node's path module (POSIX flavour)
\* ------------------------------------------------------------------------

\* normalizeString: the segments of a path with empty and "." segments
\* dropped and ".." resolved against the segment before it; above the start
\* of a relative path (allowAboveRoot) a ".." is kept.
RECURSIVE NormalizeSegments(_, _, _)
NormalizeSegments(segs, acc, allowAboveRoot) ==
    IF Len(segs) = 0 THEN acc
    ELSE LET seg == Head(segs)
             rest == Tail(segs)
         IN  IF seg = "" \/ seg = "." THEN NormalizeSegments(rest, acc, allowAboveRoot)
             ELSE IF seg = ".."
                  THEN IF Len(acc) > 0 /\ acc[Len(acc)] # ".."
                       THEN NormalizeSegments(rest, SubSeq(acc, 1, Len(acc) - 1), allowAboveRoot)
                       ELSE IF allowAboveRoot
                            THEN NormalizeSegments(rest, Append(acc, ".."), allowAboveRoot)
                            ELSE NormalizeSegments(rest, acc, allowAboveRoot)
                  ELSE NormalizeSegments(rest, Append(acc, seg), allowAboveRoot)

\* path.normalize(p)
PathNormalize(p) ==
    IF Len(p) = 0 THEN "."
    ELSE LET isAbsolute == CharAt(p, 1) = "/"
             trailingSeparator == CharAt(p, Len(p)) = "/"
             body == Join(NormalizeSegments(Split(p, "/"), <<>>, ~isAbsolute), "/")
         IN  IF Len(body) = 0
             THEN IF isAbsolute THEN "/" ELSE IF trailingSeparator THEN "./" ELSE "."
             ELSE (IF isAbsolute THEN "/" ELSE "") \o body
                  \o (IF trailingSeparator THEN "/" ELSE "")

\* path.join(...parts): the non-empty parts joined by "/", normalized.
PathJoin(parts) ==
    LET kept == SelectSeq(parts, LAMBDA part : Len(part) > 0)
    IN  IF Len(kept) = 0 THEN "." ELSE PathNormalize(Join(kept, "/"))

\* p without its trailing slashes (one character is always kept).
RECURSIVE StripTrailingSlashes(_)
StripTrailingSlashes(p) ==
    IF Len(p) > 1 /\ CharAt(p, Len(p)) = "/"
    THEN StripTrailingSlashes(SubSeq(p, 1, Len(p) - 1))
    ELSE p

\* The position of the last "/" of p, 0 when it has none.
RECURSIVE LastSlashFrom(_, _)
LastSlashFrom(p, i) ==
    IF i = 0 THEN 0 ELSE IF CharAt(p, i) = "/" THEN i ELSE LastSlashFrom(p, i - 1)

LastSlash(p) == LastSlashFrom(p, Len(p))

\* path.dirname(p)
PathDirname(p) ==
    IF Len(p) = 0 THEN "."
    ELSE LET q == StripTrailingSlashes(p)
             i == LastSlash(q)
         IN  IF i = 0 THEN "."
             ELSE IF i = 1 THEN "/"
             ELSE IF i = 2 /\ CharAt(q, 1) = "/" THEN "//"
             ELSE SubSeq(q, 1, i - 1)

\* path.basename(p)
PathBasename(p) ==
    LET q == StripTrailingSlashes(p)
    IN  IF q = "/" THEN "" ELSE DropTo(q, LastSlash(q) + 1)

\* The length of the longest common prefix of two segment sequences.
RECURSIVE CommonPrefixLen(_, _)
CommonPrefixLen(a, b) ==
    IF Len(a) > 0 /\ Len(b) > 0 /\ Head(a) = Head(b)
    THEN 1 + CommonPrefixLen(Tail(a), Tail(b))
    ELSE 0

\* path.relative(from, to) for two absolute paths.
PathRelative(from, to) ==
    LET f == NormalizeSegments(Split(from, "/"), <<>>, FALSE)
        t == NormalizeSegments(Split(to, "/"), <<>>, FALSE)
        n == CommonPrefixLen(f, t)
        ups == [i \in 1..(Len(f) - n) |-> ".."]
    IN  Join(ups \o SubSeq(t, n + 1, Len(t)), "/")

\* ------------------------------------------------------------------------
\* The registry file descriptors, the configuration and the project
\* ------------------------------------------------------------------------

\* A registry file is [path, type, target, content]; an absent target or
\* content is the empty string, which the source's !file.target and
\* !file.content tests treat alike.
File(path, type, target, content) ==
    [path |-> path, type |-> type, target |-> target, content |-> content]

\* config.resolvedPaths of a project rooted at /proj with a src directory.
ResolvedPaths ==
    [cwd                |-> "/proj",
     components         |-> "/proj/src/components",
     tiptapUi           |-> "/proj/src/components/tiptap-ui",
     tiptapUiPrimitives |-> "/proj/src/components/tiptap-ui-primitive",
     tiptapExtensions   |-> "/proj/src/components/tiptap-extension",
     tiptapNodes        |-> "/proj/src/components/tiptap-node",
     tiptapIcons        |-> "/proj/src/components/tiptap-icons",
     hooks              |-> "/proj/src/hooks",
     lib                |-> "/proj/src/lib",
     contexts           |-> "/proj/src/contexts",
     styles             |-> "/proj/src/styles"]

\* ------------------------------------------------------------------------
\* Path resolution
\* ------------------------------------------------------------------------

\* Faulty variant: the entry for stylesheets is left out.
resolveFileTargetDirectoryWithoutStyles(file, config) ==
    CASE file.type = "registry:ui"           -> config.resolvedPaths.tiptapUi
      [] file.type = "registry:ui-primitive" -> config.resolvedPaths.tiptapUiPrimitives
      [] file.type = "registry:extension"    -> config.resolvedPaths.tiptapExtensions
      [] file.type = "registry:node"         -> config.resolvedPaths.tiptapNodes
      [] file.type = "registry:icon"         -> config.resolvedPaths.tiptapIcons
      [] file.type = "registry:hook"         -> config.resolvedPaths.hooks
      [] file.type = "registry:lib"          -> config.resolvedPaths.lib
      [] file.type = "registry:context"      -> config.resolvedPaths.contexts
      [] OTHER                               -> config.resolvedPaths.components

\* Called without an override, as resolveFilePath calls it.
resolveFileTargetDirectory(file, config) ==
    CASE file.type = "registry:ui"           -> config.resolvedPaths.tiptapUi
      [] file.type = "registry:ui-primitive" -> config.resolvedPaths.tiptapUiPrimitives
      [] file.type = "registry:extension"    -> config.resolvedPaths.tiptapExtensions
      [] file.type = "registry:node"         -> config.resolvedPaths.tiptapNodes
      [] file.type = "registry:icon"         -> config.resolvedPaths.tiptapIcons
      [] file.type = "registry:hook"         -> config.resolvedPaths.hooks
      [] file.type = "registry:lib"          -> config.resolvedPaths.lib
      [] file.type = "registry:context"      -> config.resolvedPaths.contexts
      [] file.type \in {"registry:template", "registry:component"}
                                             -> config.resolvedPaths.components
      [] file.type = "registry:style"        -> config.resolvedPaths.styles
      [] OTHER                               -> config.resolvedPaths.components

\* p.replace(/^\//, "")
StripLeadingSlash(p) == IF StartsWith(p, "/") THEN DropTo(p, 2) ELSE p

\* p.replace(/^\/|\/$/g, "")
StripOuterSlashes(p) ==
    LET q == StripLeadingSlash(p)
    IN  IF EndsWith(q, "/") THEN SubSeq(q, 1, Len(q) - 1) ELSE q

\* Faulty variant: the needle itself counts as a related path.
findCommonRootCountingNeedle(paths, needle) ==
    LET normalizedPaths == [i \in 1..Len(paths) |-> StripLeadingSlash(paths[i])]
        normalizedNeedle == StripLeadingSlash(needle)
        all == Split(normalizedNeedle, "/")
        needleDir == Join(SubSeq(all, 1, Len(all) - 1), "/")
        needleSegments == Split(needleDir, "/")
        testPath(i) == Join(SubSeq(needleSegments, 1, i), "/")
        hasRelatedPaths(i) ==
            \E k \in 1..Len(normalizedPaths) :
                StartsWith(normalizedPaths[k], testPath(i) \o "/")
        found == {i \in 1..Len(needleSegments) : hasRelatedPaths(i)}
    IN  IF needleDir = "" THEN ""
        ELSE IF found = {} THEN "/" \o needleDir
        ELSE "/" \o testPath(CHOOSE i \in found : \A j \in found : j <= i)

findCommonRoot(paths, needle) ==
    LET normalizedPaths == [i \in 1..Len(paths) |-> StripLeadingSlash(paths[i])]
        normalizedNeedle == StripLeadingSlash(needle)
        all == Split(normalizedNeedle, "/")
        needleDir == Join(SubSeq(all, 1, Len(all) - 1), "/")
        needleSegments == Split(needleDir, "/")
        testPath(i) == Join(SubSeq(needleSegments, 1, i), "/")
        hasRelatedPaths(i) ==
            \E k \in 1..Len(normalizedPaths) :
                /\ normalizedPaths[k] # normalizedNeedle
                /\ StartsWith(normalizedPaths[k], testPath(i) \o "/")
        found == {i \in 1..Len(needleSegments) : hasRelatedPaths(i)}
    IN  IF needleDir = "" THEN ""
        ELSE IF found = {} THEN "/" \o needleDir
        ELSE "/" \o testPath(CHOOSE i \in found : \A j \in found : j <= i)

\* The framework names resolvePageTarget knows.
Frameworks == {"next-app", "next-pages", "react-router", "laravel"}

\* target.replace(/^app\//, prefix)
ReplaceLeadingApp(target, prefix) ==
    IF StartsWith(target, "app/") THEN prefix \o DropTo(target, 5) ELSE target

PageExtensions == {".js", ".jsx", ".ts", ".tsx"}

\* Faulty variant: the pattern is not anchored at the end, the first "/page"
\* is removed.
StripFirstPage(target) == ReplaceFirst(target, "/page", "")

\* target.replace(/\/page(\.[jt]sx?)$/, "$1")
StripTrailingPage(target) ==
    LET hits == {ext \in PageExtensions : EndsWith(target, "/page" \o ext)}
    IN  IF hits = {} THEN target
        ELSE LET ext == CHOOSE e \in hits : TRUE
             IN  SubSeq(target, 1, Len(target) - Len("/page" \o ext)) \o ext

\* Faulty variant: under an absent or unknown framework the target is
\* returned as it is.
resolvePageTargetAnyFramework(target, framework) ==
    CASE framework = "next-app"     -> target
      [] framework = "next-pages"   -> StripTrailingPage(ReplaceLeadingApp(target, "pages/"))
      [] framework = "react-router" -> StripTrailingPage(ReplaceLeadingApp(target, "app/routes/"))
      [] framework = "laravel"      ->
             StripTrailingPage(ReplaceLeadingApp(target, "resources/js/pages/"))
      [] OTHER                      -> target

\* framework is "" when the project's framework is absent.
resolvePageTarget(target, framework) ==
    CASE framework = ""             -> ""
      [] framework = "next-app"     -> target
      [] framework = "next-pages"   -> StripTrailingPage(ReplaceLeadingApp(target, "pages/"))
      [] framework = "react-router" -> StripTrailingPage(ReplaceLeadingApp(target, "app/routes/"))
      [] framework = "laravel"      ->
             StripTrailingPage(ReplaceLeadingApp(target, "resources/js/pages/"))
      [] OTHER                      -> ""

\* Faulty variant: the file is always flattened to its last segment.
resolveNestedFilePathFlat(filePath, targetDir) ==
    LET fileSegments == Split(StripOuterSlashes(filePath), "/")
    IN  fileSegments[Len(fileSegments)]

resolveNestedFilePath(filePath, targetDir) ==
    LET fileSegments == Split(StripOuterSlashes(filePath), "/")
        targetSegments == Split(StripOuterSlashes(targetDir), "/")
        lastTargetSegment == targetSegments[Len(targetSegments)]
        hits == {i \in 1..Len(fileSegments) : fileSegments[i] = lastTargetSegment}
    IN  IF hits = {} THEN fileSegments[Len(fileSegments)]
        ELSE LET commonDirIndex == CHOOSE i \in hits : \A j \in hits : i <= j
             IN  Join(SubSeq(fileSegments, commonDirIndex + 1, Len(fileSegments)), "/")

TemplatesDir == "tiptap-templates/"

\* The positions where /tiptap-templates\/([^/]+)\// matches in p: the
\* literal, then a non-empty run without "/", then a "/".
TemplateHits(p) ==
    {i \in 1..Len(p) :
        /\ OccursAt(p, TemplatesDir, i)
        /\ IndexOf(DropTo(p, i + Len(TemplatesDir)), "/") >= 2}

\* p.match(/tiptap-templates\/([^/]+)\/(.*)/): <<>> for no match, else
\* <<templateName, relativePath>> of the leftmost match.
TemplateMatch(p) ==
    LET hits == TemplateHits(p)
    IN  IF hits = {} THEN <<>>
        ELSE LET i == CHOOSE h \in hits : \A j \in hits : h <= j
                 rest == DropTo(p, i + Len(TemplatesDir))
                 slash == IndexOf(rest, "/")
             IN  <<SubSeq(rest, 1, slash - 1), DropTo(rest, slash + 1)>>

\* Faulty variant: "components/" is removed wherever it first occurs.
TemplateRelativePathUnanchored(relativePath) == ReplaceFirst(relativePath, "components/", "")

\* relativePath.startsWith("components/") ? relativePath.replace("components/", "")
\*                                         : relativePath
TemplateRelativePath(relativePath) ==
    IF StartsWith(relativePath, "components/")
    THEN ReplaceFirst(relativePath, "components/", "")
    ELSE relativePath

\* Faulty variant: the test for "~/" is left out.
HomeTargetNever(target) == FALSE

\* file.target.startsWith("~/")
HomeTarget(target) == StartsWith(target, "~/")

\* options is [isSrcDir, framework, commonRoot].
resolveFilePath(file, config, options) ==
    LET match == TemplateMatch(file.path)
        templateRule ==
            /\ file.target = ""
            /\ Includes(file.path, TemplatesDir)
            /\ file.type # "registry:page"
            /\ match # <<>>
        dataRule ==
            /\ file.target # ""
            /\ Includes(file.path, TemplatesDir)
            /\ Includes(file.target, "/data/")
            /\ match # <<>>
        pageTarget ==
            IF file.type = "registry:page"
            THEN resolvePageTarget(file.target, options.framework)
            ELSE file.target
    IN  IF templateRule
        THEN PathJoin(<<config.resolvedPaths.components, "tiptap-templates", match[1],
                        TemplateRelativePath(match[2])>>)
        ELSE IF dataRule
        THEN PathJoin(<<config.resolvedPaths.components, "tiptap-templates", match[1],
                        "data", Split(file.target, "/data/")[2]>>)
        ELSE IF file.target # ""
        THEN IF HomeTarget(file.target)
             THEN PathJoin(<<config.resolvedPaths.cwd, ReplaceFirst(file.target, "~/", "")>>)
             ELSE IF pageTarget = "" THEN ""
             ELSE IF options.isSrcDir
                  THEN PathJoin(<<config.resolvedPaths.cwd, "src",
                                  ReplaceFirst(pageTarget, "src/", "")>>)
                  ELSE PathJoin(<<config.resolvedPaths.cwd,
                                  ReplaceFirst(pageTarget, "src/", "")>>)
        ELSE LET targetDir == resolveFileTargetDirectory(file, config)
             IN  PathJoin(<<targetDir, resolveNestedFilePath(file.path, targetDir)>>)

\* Faulty variant: the pattern is not anchored at the end, the first ".ts"
\* or ".tsx" of the path is replaced.
DowngradeExtensionUnanchored(filePath) ==
    LET i == IndexOf(filePath, ".ts")
    IN  IF i = 0 THEN filePath
        ELSE IF OccursAt(filePath, ".tsx", i)
             THEN SubSeq(filePath, 1, i - 1) \o ".jsx" \o DropTo(filePath, i + 4)
             ELSE SubSeq(filePath, 1, i - 1) \o ".js" \o DropTo(filePath, i + 3)

\* filePath.replace(/\.tsx?$/, m => m === ".tsx" ? ".jsx" : ".js")
DowngradeExtension(filePath) ==
    IF EndsWith(filePath, ".tsx") THEN SubSeq(filePath, 1, Len(filePath) - 4) \o ".jsx"
    ELSE IF EndsWith(filePath, ".ts") THEN SubSeq(filePath, 1, Len(filePath) - 3) \o ".js"
    ELSE filePath

\* Faulty variant: the trim is left out.
NormalizedWithoutTrim(content) == ReplaceAll(content, "\r\n", "\n")

\* content.replace(/\r\n/g, "\n").trim()
getNormalizedFileContent(content) == Trim(ReplaceAll(content, "\r\n", "\n"))

\* ------------------------------------------------------------------------
\* The transform pipeline (utils/transformers), external to update-files.ts
\* ------------------------------------------------------------------------

\* The sources the pipeline cannot process: it throws on them.
UnparsableSources == {"}{"}

transformThrows(raw) == raw \in UnparsableSources

\* The pipeline's output: a deterministic function of the source text, here
\* its import-alias stage, which rewrites the registry alias to the
\* project's alias.
transform(raw, config) == ReplaceAll(raw, "@/registry/", "@/")

\* ------------------------------------------------------------------------
\* The inputs of a run
\* ------------------------------------------------------------------------

MaxFiles == 2

\* The registry files a component is made of in the model: two ui files that
\* flatten to one path (the first with an aliased import and CRLF line
\* endings), a file without content, a page with an explicit target that
\* has another extension than .ts or .tsx, and a lib file the pipeline
\* throws on.
Catalogue ==
    {File("tiptap-ui/b.tsx", "registry:ui", "", "@/registry/a\r\nb\r\n"),
     File("b.tsx", "registry:ui", "", "y"),
     File("tiptap-ui/m.tsx", "registry:ui", "", ""),
     File("p/page.tsx", "registry:page", "app/s.ts/page.jsx", "z"),
     File("lib/u.ts", "registry:lib", "", "}{")}

RECURSIVE SeqsUpTo(_, _)
SeqsUpTo(S, n) ==
    IF n = 0 THEN {<<>>}
    ELSE LET shorter == SeqsUpTo(S, n - 1)
         IN  shorter \cup {Append(q, x) : q \in {r \in shorter : Len(r) = n - 1}, x \in S}

FileLists == SeqsUpTo(Catalogue, MaxFiles)

Configs == {[resolvedPaths |-> ResolvedPaths, tsx |-> t] : t \in BOOLEAN}

\* getProjectInfo's answers: a Next.js pages project with a src directory,
\* and a project of no known framework without one.
ProjectInfos ==
    {[isSrcDir |-> TRUE, framework |-> "next-pages"],
     [isSrcDir |-> FALSE, framework |-> ""]}

\* Faulty variant: a file whose path an earlier file of the list already
\* resolved to is given a path of its own.
ResolvedPathAvoidingEarlier(fileList, i, cfg, info) ==
    LET opts == [isSrcDir |-> info.isSrcDir, framework |-> info.framework, commonRoot |-> ""]
        own == resolveFilePath(fileList[i], cfg, opts)
    IN  IF own # "" /\ \E k \in 1..(i - 1) : resolveFilePath(fileList[k], cfg, opts) = own
        THEN own \o ".1"
        ELSE own

\* resolveFilePath as updateFiles calls it for a file of the list.
ResolvedPath(fileList, i, cfg, info) ==
    resolveFilePath(fileList[i], cfg,
        [isSrcDir |-> info.isSrcDir, framework |-> info.framework,
         commonRoot |-> findCommonRoot([k \in 1..Len(fileList) |-> fileList[k].path],
                                       fileList[i].path)])

\* The path updateFiles works on for a file of the list: resolveFilePath's
\* answer with the extension downgraded when config.tsx is false; "" when
\* the file is passed over (no content, or no path).
TargetPath(fileList, i, cfg, info) ==
    IF fileList[i].content = "" THEN ""
    ELSE LET resolved == ResolvedPath(fileList, i, cfg, info)
         IN  IF resolved = "" THEN ""
             ELSE IF ~cfg.tsx THEN DowngradeExtension(resolved) ELSE resolved

\* The same text as an editor of the other line-ending convention saves it:
\* CRLF line endings turned into LF and a leading blank added, or LF line
\* endings turned into CRLF and a final line ending added.
OtherConvention(text) ==
    IF Includes(text, "\r\n") THEN " " \o ReplaceAll(text, "\r\n", "\n")
    ELSE ReplaceAll(text, "\n", "\r\n") \o "\r\n"

\* What the project holds at a file's path before the first run.
PreStates == {"absent", "same", "other"}

OtherText == "old"

\* The files of the project before the first run: for each file of the list
\* nothing, its transformed text in the other convention, or other text.
RECURSIVE InitialFiles(_, _, _, _, _)
InitialFiles(fileList, pre, cfg, info, n) ==
    IF n = 0 THEN [q \in {} |-> ""]
    ELSE LET before == InitialFiles(fileList, pre, cfg, info, n - 1)
             p == TargetPath(fileList, n, cfg, info)
             text == IF pre[n] = "same"
                     THEN OtherConvention(transform(fileList[n].content, cfg))
                     ELSE OtherText
         IN  IF p = "" \/ pre[n] = "absent" THEN before
             ELSE [q \in (DOMAIN before) \cup {p} |-> IF q = p THEN text ELSE before[q]]

\* A directory and the directories above it.
RECURSIVE Ancestors(_)
Ancestors(dir) ==
    IF dir = "/" \/ dir = "." \/ dir = "//" THEN {dir} ELSE {dir} \cup Ancestors(PathDirname(dir))

DirsOf(fileSystem) == UNION {Ancestors(PathDirname(p)) : p \in DOMAIN fileSystem}

\* ------------------------------------------------------------------------
\* State
\* ------------------------------------------------------------------------

VARIABLES
    files,          \* updateFiles' argument: the registry files, in order
    config,         \* its config argument: [resolvedPaths, tsx]
    projectInfo,    \* getProjectInfo's answer: [isSrcDir, framework]
    options,        \* its options argument: [overwrite]
    fs,             \* the files on disk: path -> text
    dirs,           \* the directories on disk
    pc,             \* where the run is: "call", "loop", "transform", "read",
                    \* "confirm", "mkdir", "write", "done" (the manifest is
                    \* returned) or "failed" (the promise is rejected)
    idx,            \* the position in files of the file being processed
    filePath,       \* the loop body's locals
    targetDir,
    fileName,
    existingFile,
    content,
    filesCreated,   \* the manifest
    filesUpdated,
    filesSkipped,
    output,         \* the notices and summary headers emitted by the run
    error,          \* the await that threw, "" while none has
    log,            \* this run's effects in order: prompts, answers, mkdirs,
                    \* writes and manifest entries, each with its file's idx
    run,            \* "first", or "second" once updateFiles is run again
    history,        \* how each ended run ended, and its manifest
    call,           \* the exported function that is called, and its arguments
    result          \* <<>> while a direct call of a helper is pending, then
                    \* <<what it returned>>

vars == <<files, config, projectInfo, options, fs, dirs, pc, idx, filePath, targetDir,
          fileName, existingFile, content, filesCreated, filesUpdated, filesSkipped,
          output, error, log, run, history, call, result>>

\* The call and what it returned: no step of updateFiles changes them.
probe == <<call, result>>

inputs == <<files, config, projectInfo, options>>

locals == <<filePath, targetDir, fileName, existingFile, content>>

manifest == <<filesCreated, filesUpdated, filesSkipped>>

Manifest == [filesCreated |-> filesCreated, filesUpdated |-> filesUpdated,
             filesSkipped |-> filesSkipped]

Init ==
    /\ files \in FileLists
    /\ config \in Configs
    /\ projectInfo \in ProjectInfos
    /\ \E pre \in [1..Len(files) -> PreStates] :
           fs = InitialFiles(files, pre, config, projectInfo, Len(files))
    /\ dirs = DirsOf(fs) \cup Ancestors(config.resolvedPaths.cwd)
    /\ options \in [overwrite : BOOLEAN]
    /\ pc = "call"
    /\ idx = 1
    /\ filePath = ""
    /\ targetDir = ""
    /\ fileName = ""
    /\ existingFile = FALSE
    /\ content = ""
    /\ filesCreated = <<>>
    /\ filesUpdated = <<>>
    /\ filesSkipped = <<>>
    /\ output = <<>>
    /\ error = ""
    /\ log = <<>>
    /\ run = "first"
    /\ history = <<>>
    /\ call = [fn |-> "updateFiles"]
    /\ result = <<>>

\* ------------------------------------------------------------------------
\* updateFiles
\* ------------------------------------------------------------------------

\* An await of the run throws: nothing catches it, the promise updateFiles
\* returned is rejected.
Throw(stage) ==
    /\ pc' = "failed"
    /\ error' = stage
    /\ history' = Append(history, [status |-> "rejected", manifest |-> Manifest])

\* The entry of a file in one of the manifest's lists.
Entry(list) == [op |-> "push", idx |-> idx, list |-> list,
                path |-> PathRelative(config.resolvedPaths.cwd, filePath)]

\* Faulty variant: the entry is made but the continue is left out, so the
\* file goes on to be written.
SkipFileAndFallThrough ==
    /\ filesSkipped' = Append(filesSkipped, PathRelative(config.resolvedPaths.cwd, filePath))
    /\ idx' = idx
    /\ pc' = "mkdir"
    /\ UNCHANGED <<filesCreated, filesUpdated>>

\* filesSkipped.push(...); continue
SkipFile ==
    /\ filesSkipped' = Append(filesSkipped, PathRelative(config.resolvedPaths.cwd, filePath))
    /\ idx' = idx + 1
    /\ pc' = "loop"
    /\ UNCHANGED <<filesCreated, filesUpdated>>

\* The call: an empty list returns an empty manifest at once.
Call ==
    /\ pc = "call"
    /\ IF Len(files) = 0
       THEN /\ pc' = "done"
            /\ history' = Append(history, [status |-> "returned", manifest |-> Manifest])
       ELSE /\ pc' = "loop"
            /\ UNCHANGED history
    /\ UNCHANGED <<probe, inputs, fs, dirs, idx, locals, manifest, output, error, log, run>>

\* Faulty variant: the test for content is left out.
NoContentNever(file) == FALSE

\* if (!file.content)
NoContent(file) == file.content = ""

\* The top of the loop body up to the await of the pipeline: a file without
\* content, or without a path, is passed over.
Loop ==
    /\ pc = "loop"
    /\ idx <= Len(files)
    /\ LET resolved == ResolvedPath(files, idx, config, projectInfo)
           path == IF ~config.tsx THEN DowngradeExtension(resolved) ELSE resolved
       IN  IF NoContent(files[idx]) \/ resolved = ""
           THEN /\ idx' = idx + 1
                /\ UNCHANGED <<pc, locals>>
           ELSE /\ fileName' = PathBasename(files[idx].path)
                /\ targetDir' = PathDirname(resolved)
                /\ filePath' = path
                /\ existingFile' = (path \in DOMAIN fs)
                /\ pc' = "transform"
                /\ UNCHANGED <<idx, content>>
    /\ UNCHANGED <<probe, inputs, fs, dirs, manifest, output, error, log, run, history>>

\* await transform(...)
Transform ==
    /\ pc = "transform"
    /\ IF transformThrows(files[idx].content)
       THEN /\ Throw("transform")
            /\ UNCHANGED content
       ELSE /\ content' = transform(files[idx].content, config)
            /\ pc' = IF existingFile THEN "read" ELSE "mkdir"
            /\ UNCHANGED <<error, history>>
    /\ UNCHANGED <<probe, inputs, fs, dirs, idx, filePath, targetDir, fileName, existingFile,
                   manifest, output, log, run>>

\* Faulty variant: the text read from disk is compared as it is.
SameContentRawExisting(existingFileContent, newContent) ==
    existingFileContent = getNormalizedFileContent(newContent)

\* normalizedExisting === normalizedNew
SameContent(existingFileContent, newContent) ==
    getNormalizedFileContent(existingFileContent) = getNormalizedFileContent(newContent)

\* Faulty variant: options.overwrite is not looked at.
MustConfirmAlways == existingFile

\* existingFile && !options.overwrite
MustConfirm == existingFile /\ ~options.overwrite

\* Faulty variant: the new text is written before the user is asked.
AskAfterWriting ==
    /\ pc' = "confirm"
    /\ fs' = [fs EXCEPT ![filePath] = content]
    /\ log' = Append(log, [op |-> "prompt", idx |-> idx, fileName |-> fileName])
    /\ UNCHANGED dirs

\* The prompt is put to the user; nothing is written before it is answered.
Ask ==
    /\ pc' = "confirm"
    /\ log' = Append(log, [op |-> "prompt", idx |-> idx, fileName |-> fileName])
    /\ UNCHANGED <<fs, dirs>>

\* await fs.readFile(filePath), the comparison, and what follows it up to
\* the next await: the skip, the prompt, or the way to the write.
Read ==
    /\ pc = "read"
    /\ \/ /\ filePath \in DOMAIN fs
          /\ IF SameContent(fs[filePath], content)
             THEN /\ SkipFile
                  /\ log' = Append(log, Entry("filesSkipped"))
                  /\ UNCHANGED <<fs, dirs>>
             ELSE /\ IF MustConfirm
                     THEN Ask
                     ELSE /\ pc' = "mkdir"
                          /\ UNCHANGED <<fs, dirs, log>>
                  /\ UNCHANGED <<idx, manifest>>
          /\ UNCHANGED <<error, history>>
       \/ /\ Throw("read")
          /\ UNCHANGED <<fs, dirs, idx, manifest, log>>
    /\ UNCHANGED <<probe, inputs, locals, output, run>>

\* Faulty variant: the test of the answer is inverted.
DeclinedInverted(overwrite) == overwrite

\* if (!overwrite): the prompt's answer declines
Declined(overwrite) == ~overwrite

\* await confirm(...) is settled: answered yes or no, or cancelled (the
\* prompt's promise is rejected).
Confirm ==
    /\ pc = "confirm"
    /\ \/ \E overwrite \in BOOLEAN :
            /\ IF Declined(overwrite)
               THEN /\ SkipFile
                    /\ log' = log \o <<[op |-> "answer", idx |-> idx, overwrite |-> overwrite],
                                       Entry("filesSkipped")>>
               ELSE /\ pc' = "mkdir"
                    /\ log' = Append(log, [op |-> "answer", idx |-> idx,
                                           overwrite |-> overwrite])
                    /\ UNCHANGED <<idx, manifest>>
            /\ UNCHANGED <<error, history>>
       \/ /\ Throw("confirm")
          /\ log' = Append(log, [op |-> "cancel", idx |-> idx])
          /\ UNCHANGED <<idx, manifest>>
    /\ UNCHANGED <<probe, inputs, fs, dirs, locals, output, run>>

\* if (!existsSync(targetDir)) await fs.mkdir(targetDir, {recursive: true})
Mkdir ==
    /\ pc = "mkdir"
    /\ IF targetDir \in dirs
       THEN /\ pc' = "write"
            /\ UNCHANGED <<dirs, log, error, history>>
       ELSE \/ /\ dirs' = dirs \cup Ancestors(targetDir)
               /\ log' = Append(log, [op |-> "mkdir", idx |-> idx, dir |-> targetDir])
               /\ pc' = "write"
               /\ UNCHANGED <<error, history>>
            \/ /\ Throw("mkdir")
               /\ UNCHANGED <<dirs, log>>
    /\ UNCHANGED <<probe, inputs, fs, idx, locals, manifest, output, run>>

\* Faulty variant: a file written over an existing one gets no entry.
RecordWrittenOnlyCreated ==
    IF existingFile
    THEN UNCHANGED <<filesCreated, filesUpdated, filesSkipped>>
    ELSE /\ filesCreated' = Append(filesCreated,
                                   PathRelative(config.resolvedPaths.cwd, filePath))
         /\ UNCHANGED <<filesUpdated, filesSkipped>>

\* Faulty variant: the entry is put at the front of its list (unshift).
RecordWrittenFirst ==
    IF existingFile
    THEN /\ filesUpdated' = <<PathRelative(config.resolvedPaths.cwd, filePath)>>
                                \o filesUpdated
         /\ UNCHANGED <<filesCreated, filesSkipped>>
    ELSE /\ filesCreated' = <<PathRelative(config.resolvedPaths.cwd, filePath)>>
                                \o filesCreated
         /\ UNCHANGED <<filesUpdated, filesSkipped>>

\* existingFile ? filesUpdated.push(...) : filesCreated.push(...)
RecordWritten ==
    IF existingFile
    THEN /\ filesUpdated' = Append(filesUpdated,
                                   PathRelative(config.resolvedPaths.cwd, filePath))
         /\ UNCHANGED <<filesCreated, filesSkipped>>
    ELSE /\ filesCreated' = Append(filesCreated,
                                   PathRelative(config.resolvedPaths.cwd, filePath))
         /\ UNCHANGED <<filesUpdated, filesSkipped>>

\* Faulty variant: the source text is written, not the pipeline's output.
WrittenRawText == files[idx].content

\* The text fs.writeFile is given.
WrittenText == content

\* await fs.writeFile(filePath, content) and the manifest entry
Write ==
    /\ pc = "write"
    /\ \/ /\ fs' = [q \in (DOMAIN fs) \cup {filePath} |->
                       IF q = filePath THEN WrittenText ELSE fs[q]]
          /\ RecordWritten
          /\ log' = log \o <<[op |-> "write", idx |-> idx, path |-> filePath,
                              text |-> WrittenText, existed |-> filePath \in DOMAIN fs],
                             Entry(IF existingFile THEN "filesUpdated" ELSE "filesCreated")>>
          /\ idx' = idx + 1
          /\ pc' = "loop"
          /\ UNCHANGED <<error, history>>
       \/ /\ Throw("write")
          /\ UNCHANGED <<fs, idx, manifest, log>>
    /\ UNCHANGED <<probe, inputs, dirs, locals, output, run>>

Noun(n) == IF n = 1 THEN "file" ELSE "files"

\* The notice and the headers of the summary, in the order they are emitted.
Summary ==
    (IF Len(filesCreated) = 0 /\ Len(filesUpdated) = 0 /\ Len(filesSkipped) = 0
     THEN <<[text |-> "No files updated."]>> ELSE <<>>)
    \o (IF Len(filesCreated) # 0
        THEN <<[header |-> "Created", count |-> Len(filesCreated),
                noun |-> Noun(Len(filesCreated))]>>
        ELSE <<>>)
    \o (IF Len(filesUpdated) # 0
        THEN <<[header |-> "Updated", count |-> Len(filesUpdated),
                noun |-> Noun(Len(filesUpdated))]>>
        ELSE <<>>)
    \o (IF Len(filesSkipped) # 0
        THEN <<[header |-> "Skipped", count |-> Len(filesSkipped),
                noun |-> Noun(Len(filesUpdated))]>>
        ELSE <<>>)

\* The loop is over: the summary is emitted and the manifest returned.
Return ==
    /\ pc = "loop"
    /\ idx > Len(files)
    /\ output' = Summary
    /\ pc' = "done"
    /\ history' = Append(history, [status |-> "returned", manifest |-> Manifest])
    /\ UNCHANGED <<probe, inputs, fs, dirs, idx, locals, manifest, error, log, run>>

\* After a run that returned, updateFiles is called again with the same
\* arguments on the file system that run left.
Rerun ==
    /\ pc = "done"
    /\ run = "first"
    /\ run' = "second"
    /\ pc' = "call"
    /\ idx' = 1
    /\ filePath' = ""
    /\ targetDir' = ""
    /\ fileName' = ""
    /\ existingFile' = FALSE
    /\ content' = ""
    /\ filesCreated' = <<>>
    /\ filesUpdated' = <<>>
    /\ filesSkipped' = <<>>
    /\ output' = <<>>
    /\ error' = ""
    /\ log' = <<>>
    /\ UNCHANGED <<probe, inputs, fs, dirs, history>>

Next ==
    \/ Call
    \/ Loop
    \/ Transform
    \/ Read
    \/ Confirm
    \/ Mkdir
    \/ Write
    \/ Return
    \/ Rerun

Spec == Init /\ [][Next]_vars

\* ------------------------------------------------------------------------
\* The exported helpers, called directly
\* ------------------------------------------------------------------------

MaxDepth == 2

\* The strings of at most MaxDepth segments over S, as segment sequences.
Paths(S) == SeqsUpTo(S, MaxDepth)

\* The framework argument: the four names resolvePageTarget knows, another
\* name, and "" for an absent one.
FrameworkArgs == Frameworks \cup {"astro", ""}

PageSegments == {"s", "page", "app"}

\* app/<segments>/page<ext>
PageTargetOf(mid, ext) == Join(<<"app">> \o mid \o <<"page" \o ext>>, "/")

\* Targets that are not of that shape.
OtherTargets == {"lib/x.ts", "src/app/s/page.tsx", "app/s/index.tsx"}

\* The calls resolvePageTarget(target, framework); mid and ext say how the
\* target was put together (ext = "" for a target of another shape).
PageTargetCalls ==
    {[fn |-> "resolvePageTarget", target |-> PageTargetOf(mid, ext), framework |-> fw,
      mid |-> mid, ext |-> ext] :
        mid \in Paths(PageSegments), ext \in PageExtensions, fw \in FrameworkArgs}
    \cup {[fn |-> "resolvePageTarget", target |-> t, framework |-> fw,
           mid |-> <<>>, ext |-> ""] : t \in OtherTargets, fw \in FrameworkArgs}

DirSegments == {"a", "b"}

\* The directories the needle of findCommonRoot lies in.
NeedleDirs == {d \in Paths(DirSegments) : d = <<>> \/ d[1] = "a"}

\* The path of the file f in the directory d.
FileIn(d, f) == Join(d \o <<f>>, "/")

\* The calls findCommonRoot(paths, needle): the needle n.ts in one directory,
\* with or without a leading slash, and paths made of the needle and of at
\* most MaxFiles files f.ts in directories of their own.
CommonRootCalls ==
    {[fn |-> "findCommonRoot",
      paths |-> <<FileIn(d, "n.ts")>> \o [k \in 1..Len(others) |-> FileIn(others[k], "f.ts")],
      needle |-> (IF slash THEN "/" ELSE "") \o FileIn(d, "n.ts"),
      needleDir |-> d, otherDirs |-> others] :
        d \in NeedleDirs, others \in SeqsUpTo(Paths(DirSegments), MaxFiles),
        slash \in BOOLEAN}

\* The files of a component with a directory of its own: its node, its
\* stylesheet and its hook, and a ui file beside them.
ComponentFiles ==
    {File("tiptap-node/i/i.tsx", "registry:node", "", "x"),
     File("tiptap-node/i/i.scss", "registry:style", "", "x"),
     File("tiptap-node/i/use-i.ts", "registry:hook", "", "x"),
     File("tiptap-ui/b/b.tsx", "registry:ui", "", "x")}

\* The resolution of every file of a list, as the loop of updateFiles makes
\* it, for the lists of at most MaxFiles component files.
ResolveFilesCalls ==
    {[fn |-> "resolveFiles", files |-> list, config |-> cfg, projectInfo |-> info] :
        list \in SeqsUpTo(ComponentFiles, MaxFiles) \ {<<>>},
        cfg \in Configs, info \in ProjectInfos}

\* The options of resolveFilePath that a project of the given layout and
\* framework gives.
ResolveOptions(isSrcDir, framework) ==
    [isSrcDir |-> isSrcDir, framework |-> framework, commonRoot |-> ""]

\* One call resolveFilePath(file, config, options); shape and parts say how
\* the file's path and target were put together.
FilePathCall(file, opts, shape, parts) ==
    [fn |-> "resolveFilePath", file |-> file,
     config |-> [resolvedPaths |-> ResolvedPaths, tsx |-> TRUE],
     options |-> opts, shape |-> shape, parts |-> parts]

TargetSegments == {"src", "app", "mysrc"}

TargetNames == {"x.ts", "page.tsx"}

\* Files with an explicit target <dirs>/<name>, or ~/<dirs>/<name>, of kind
\* lib or page, in every layout and under three frameworks.
TargetCalls ==
    {FilePathCall(File("x.ts", type,
                       (IF home THEN "~/" ELSE "") \o Join(dir \o <<name>>, "/"), "x"),
                  ResolveOptions(isSrcDir, fw),
                  IF home THEN "home" ELSE "target",
                  [rest |-> dir \o <<name>>]) :
        dir \in Paths(TargetSegments), name \in TargetNames, home \in BOOLEAN,
        type \in {"registry:lib", "registry:page"}, isSrcDir \in BOOLEAN,
        fw \in {"next-pages", "next-app", ""}}

DefaultSegments == {"tiptap-ui", "lib", "x"}

DefaultNames == {"b.tsx", "lib"}

\* Files without a target whose path is <dirs>/<name>, of kind ui, lib or
\* page.
DefaultCalls ==
    {FilePathCall(File(Join(dir \o <<name>>, "/"), type, "", "x"),
                  ResolveOptions(isSrcDir, ""), "default",
                  [segments |-> dir \o <<name>>]) :
        dir \in Paths(DefaultSegments), name \in DefaultNames,
        type \in {"registry:ui", "registry:lib", "registry:page"}, isSrcDir \in BOOLEAN}

TemplateSegments == {"components", "data"}

TemplateNames == {"a.tsx", "components"}

\* Files without a target whose path is [x/]tiptap-templates/simple/<rest>,
\* of kind component, ui or page.
TemplateCalls ==
    {FilePathCall(File(Join(pre \o <<"tiptap-templates", "simple">> \o dir \o <<name>>, "/"),
                       type, "", "x"),
                  ResolveOptions(isSrcDir, ""), "template",
                  [rest |-> dir \o <<name>>,
                   segments |-> pre \o <<"tiptap-templates", "simple">> \o dir \o <<name>>]) :
        pre \in {<<>>, <<"x">>}, dir \in Paths(TemplateSegments), name \in TemplateNames,
        type \in {"registry:component", "registry:ui", "registry:page"},
        isSrcDir \in BOOLEAN}

DataSegments == {"a", "data"}

\* Template files with a target <head>/data/<dirs>/c.json, of kind component
\* or page.
DataCalls ==
    {FilePathCall(File("tiptap-templates/simple/data/c.json", type,
                       head \o "/data/" \o Join(dir \o <<"c.json">>, "/"), "x"),
                  ResolveOptions(isSrcDir, fw), "data",
                  [suffix |-> dir \o <<"c.json">>]) :
        head \in {"~", "src/app", "lib"}, dir \in Paths(DataSegments),
        type \in {"registry:component", "registry:page"}, isSrcDir \in BOOLEAN,
        fw \in {"next-pages", ""}}

\* config.resolvedPaths of a project rooted at /site without a src directory.
SiteResolvedPaths ==
    [cwd                |-> "/site",
     components         |-> "/site/components",
     tiptapUi           |-> "/site/components/ui",
     tiptapUiPrimitives |-> "/site/components/primitives",
     tiptapExtensions   |-> "/site/components/extensions",
     tiptapNodes        |-> "/site/components/nodes",
     tiptapIcons        |-> "/site/components/icons",
     hooks              |-> "/site/hooks",
     lib                |-> "/site/lib",
     contexts           |-> "/site/contexts",
     styles             |-> "/site/styles"]

\* The kinds resolveFileTargetDirectory names, three it does not name, and
\* an absent kind.
FileTypes ==
    {"registry:ui", "registry:ui-primitive", "registry:extension", "registry:node",
     "registry:icon", "registry:hook", "registry:lib", "registry:context",
     "registry:style", "registry:template", "registry:component", "registry:page",
     "registry:file", "registry:asset", ""}

\* The calls resolveFileTargetDirectory(file, config), without override: a
\* file of every kind, with or without a target, in either project.
TargetDirectoryCalls ==
    {[fn |-> "resolveFileTargetDirectory", file |-> File(p, type, target, "x"),
      config |-> [resolvedPaths |-> rp, tsx |-> TRUE]] :
        p \in {"b.tsx", "tiptap-ui/b/b.tsx"}, type \in FileTypes,
        target \in {"", "app/s/page.tsx"}, rp \in {ResolvedPaths, SiteResolvedPaths}}

ParentSegments == {"..", "lib"}

\* Files of kind lib whose target (plain or under ~/), or whose path when
\* they have no target, is <dirs>/x.ts with ".." among the directories.
ParentCalls ==
    {FilePathCall(File("x.ts", "registry:lib",
                       (IF home THEN "~/" ELSE "") \o Join(dir \o <<"x.ts">>, "/"), "x"),
                  ResolveOptions(isSrcDir, ""), "parent",
                  [segments |-> dir \o <<"x.ts">>]) :
        dir \in Paths(ParentSegments) \ {<<>>}, home \in BOOLEAN, isSrcDir \in BOOLEAN}
    \cup {FilePathCall(File(Join(dir \o <<"x.ts">>, "/"), "registry:lib", "", "x"),
                       ResolveOptions(isSrcDir, ""), "parent",
                       [segments |-> dir \o <<"x.ts">>]) :
              dir \in Paths(ParentSegments) \ {<<>>}, isSrcDir \in BOOLEAN}

\* Files of kind page with the target [src/]app/<segments>/page<ext>, in
\* every layout and under every framework argument.
PageCalls ==
    {FilePathCall(File("p/page.tsx", "registry:page",
                       (IF src THEN "src/" ELSE "") \o PageTargetOf(mid, ext), "x"),
                  ResolveOptions(isSrcDir, fw), "page",
                  [src |-> src, mid |-> mid, ext |-> ext]) :
        src \in BOOLEAN, mid \in Paths(PageSegments), ext \in PageExtensions,
        isSrcDir \in BOOLEAN, fw \in FrameworkArgs}

\* Files of kind page or lib, under every framework argument, with no target,
\* or with a target that has "/data/" while the path is not that of a
\* template file (no tiptap-templates/, or no template name after it).
PlainCalls ==
    {FilePathCall(File(p, type, target, "x"), ResolveOptions(isSrcDir, fw), "plain",
                  [segments |-> Split(p, "/")]) :
        p \in {"p/page.tsx", "tiptap-templates/c.json"},
        type \in {"registry:page", "registry:lib"},
        target \in {"", "app/data/c.json"},
        isSrcDir \in BOOLEAN, fw \in FrameworkArgs}

FilePathCalls == TargetCalls \cup DefaultCalls \cup TemplateCalls \cup DataCalls
                     \cup ParentCalls \cup PageCalls \cup PlainCalls

ResolveInit ==
    /\ call \in PageTargetCalls \cup CommonRootCalls \cup ResolveFilesCalls \cup FilePathCalls
                \cup TargetDirectoryCalls
    /\ result = <<>>
    /\ files = <<>>
    /\ config = [resolvedPaths |-> ResolvedPaths, tsx |-> TRUE]
    /\ projectInfo = [isSrcDir |-> FALSE, framework |-> ""]
    /\ options = [overwrite |-> FALSE]
    /\ fs = [q \in {} |-> ""]
    /\ dirs = {}
    /\ pc = "call"
    /\ idx = 1
    /\ filePath = ""
    /\ targetDir = ""
    /\ fileName = ""
    /\ existingFile = FALSE
    /\ content = ""
    /\ filesCreated = <<>>
    /\ filesUpdated = <<>>
    /\ filesSkipped = <<>>
    /\ output = <<>>
    /\ error = ""
    /\ log = <<>>
    /\ run = "first"
    /\ history = <<>>

\* What a direct call leaves alone: all of updateFiles' state.
untouched == <<inputs, fs, dirs, pc, idx, locals, manifest, output, error, log, run, history>>

ResolvePageTarget ==
    /\ call.fn = "resolvePageTarget"
    /\ result = <<>>
    /\ result' = <<resolvePageTarget(call.target, call.framework)>>
    /\ UNCHANGED <<call, untouched>>

FindCommonRoot ==
    /\ call.fn = "findCommonRoot"
    /\ result = <<>>
    /\ result' = <<findCommonRoot(call.paths, call.needle)>>
    /\ UNCHANGED <<call, untouched>>

\* The loop body up to existsSync for each file of the list: the path each
\* file is written to.
ResolveFiles ==
    /\ call.fn = "resolveFiles"
    /\ result = <<>>
    /\ result' = <<[i \in 1..Len(call.files) |->
                       TargetPath(call.files, i, call.config, call.projectInfo)]>>
    /\ UNCHANGED <<call, untouched>>

ResolveFilePath ==
    /\ call.fn = "resolveFilePath"
    /\ result = <<>>
    /\ result' = <<resolveFilePath(call.file, call.config, call.options)>>
    /\ UNCHANGED <<call, untouched>>

ResolveFileTargetDirectory ==
    /\ call.fn = "resolveFileTargetDirectory"
    /\ result = <<>>
    /\ result' = <<resolveFileTargetDirectory(call.file, call.config)>>
    /\ UNCHANGED <<call, untouched>>

ResolveNext ==
    \/ ResolveFileTargetDirectory
    \/ ResolvePageTarget
    \/ FindCommonRoot
    \/ ResolveFiles
    \/ ResolveFilePath

ResolveSpec == ResolveInit /\ [][ResolveNext]_vars

\* ------------------------------------------------------------------------
\* What the claims speak of
\* ------------------------------------------------------------------------

\* The events of one kind in this run's log.
Events(op) == SelectSeq(log, LAMBDA e : e.op = op)

Range(q) == {q[k] : k \in 1..Len(q)}

\* The files of the list that are processed: they have content and a path.
Processed == {i \in 1..Len(files) : TargetPath(files, i, config, projectInfo) # ""}

\* The text the pipeline makes of the i-th file.
NewText(i) == transform(files[i].content, config)

\* Normalization as the specification words it: every CRLF replaced by LF,
\* leading and trailing white space trimmed.
Normalized(text) == Trim(ReplaceAll(text, "\r\n", "\n"))

\* The manifest entry of a path.
Relative(p) == PathRelative(config.resolvedPaths.cwd, p)

\* The step put the prompt's answer, yes (TRUE) or no, into the log.
Answered(overwrite) ==
    /\ pc = "confirm"
    /\ Len(log') > Len(log)
    /\ log'[Len(log) + 1] = [op |-> "answer", idx |-> idx, overwrite |-> overwrite]

\* The step skipped the file being processed and went on to the next one,
\* writing nothing, creating no directory and asking nothing.
SkippedInStep ==
    /\ filesSkipped' = Append(filesSkipped, Relative(filePath))
    /\ filesCreated' = filesCreated
    /\ filesUpdated' = filesUpdated
    /\ fs' = fs
    /\ dirs' = dirs
    /\ Len(SelectSeq(log', LAMBDA e : e.op = "prompt")) = Len(Events("prompt"))
    /\ idx' = idx + 1
    /\ pc' = "loop"

\* ------------------------------------------------------------------------
\* C1
\* ------------------------------------------------------------------------

\* What the first run returned.
FirstManifest == history[1].manifest

SecondRunSkipsAll ==
    /\ Events("write") = <<>>
    /\ pc = "done" =>
           Range(FirstManifest.filesCreated) \cup Range(FirstManifest.filesUpdated)
               \subseteq Range(filesSkipped)

\* C1 as stated: run twice with overwrite=true, updateFiles puts every path
\* the first run created or updated into filesSkipped of the second run, and
\* the second run writes nothing, for every list of files.
C1_Idempotent == (options.overwrite /\ run = "second") => SecondRunSkipsAll

\* No two processed files of the list resolve to one path with texts that
\* differ after normalization.
NoConflictingFiles ==
    \A i, j \in Processed :
        TargetPath(files, i, config, projectInfo) = TargetPath(files, j, config, projectInfo)
            => Normalized(NewText(i)) = Normalized(NewText(j))

\* Where the list has no two files that resolve to the same path with
\* different content, the second run does skip every path the first run
\* created or updated, and writes nothing.
IdempotentWithoutConflicts ==
    (options.overwrite /\ run = "second") => (SecondRunSkipsAll \/ ~NoConflictingFiles)

C1_Witness ==
    /\ options.overwrite
    /\ run = "second"
    /\ pc = "done"
    /\ NoConflictingFiles
    /\ FirstManifest.filesCreated # <<>>
    /\ FirstManifest.filesUpdated # <<>>
    /\ Len(filesSkipped) = 2

\* ------------------------------------------------------------------------
\* C2
\* ------------------------------------------------------------------------

\* C2 as stated: a failure while one file is processed is fatal for that file
\* only, so a run never ends while a later file of the list is still to be
\* processed.
C2_FailureSparesLaterFiles ==
    pc \in {"done", "failed"} => \A j \in Processed : j <= idx

\* ------------------------------------------------------------------------
\* C3
\* ------------------------------------------------------------------------

\* C3: when the file read at the resolved path equals the new content after
\* normalization, and in particular when it is the new content in the other
\* line-ending convention with other outer white space, the file is recorded
\* in filesSkipped, nothing is written and no prompt is issued, whatever
\* options.overwrite is.
C3_SameContentIsSkipped ==
    [][(/\ pc = "read"
        /\ pc' # "failed"
        /\ \/ Normalized(fs[filePath]) = Normalized(content)
           \/ fs[filePath] = OtherConvention(content)
           \/ content = OtherConvention(fs[filePath]))
       => SkippedInStep]_vars

C3_Witness ==
    /\ ~options.overwrite
    /\ pc = "loop"
    /\ idx = 2
    /\ log = <<[op |-> "push", idx |-> 1, list |-> "filesSkipped",
                path |-> Relative(filePath)]>>
    /\ fs[filePath] = OtherConvention(content)
    /\ fs[filePath] # content

\* ------------------------------------------------------------------------
\* C4
\* ------------------------------------------------------------------------

\* The file at the resolved path holds the text of one of the files of the
\* list that resolve to it.
HoldsNewText(p) ==
    /\ p \in DOMAIN fs
    /\ \E j \in Processed :
           /\ TargetPath(files, j, config, projectInfo) = p
           /\ Normalized(fs[p]) = Normalized(NewText(j))

\* C4: a prompt is pending only for a file that exists at its resolved path
\* with content that differs after normalization, and only when overwrite is
\* false; such a file, once read, is always prompted for; with overwrite=true
\* no prompt is issued in the run, and when the run returns every resolved
\* path holds the new content.
C4_PromptExactlyOnConflict ==
    /\ [](pc = "confirm" =>
              /\ filePath \in DOMAIN fs
              /\ Normalized(fs[filePath]) # Normalized(content)
              /\ ~options.overwrite
              /\ log[Len(log)] = [op |-> "prompt", idx |-> idx, fileName |-> fileName])
    /\ [][(/\ pc = "read"
           /\ pc' # "failed"
           /\ Normalized(fs[filePath]) # Normalized(content)
           /\ ~options.overwrite)
          => (pc' = "confirm" /\ Len(log') = Len(log) + 1)]_vars
    /\ [](options.overwrite => Events("prompt") = <<>>)
    /\ []((options.overwrite /\ pc = "done") =>
              \A i \in Processed : HoldsNewText(TargetPath(files, i, config, projectInfo)))

C4_Witness ==
    /\ pc = "confirm"
    /\ Len(Events("prompt")) = 2

\* ------------------------------------------------------------------------
\* C5
\* ------------------------------------------------------------------------

\* C5: when the prompt is answered No, the file is recorded in filesSkipped,
\* the file on disk and the directories are left as they are, and the run
\* goes on to the next file.
C5_DeclinedIsSkipped == [][Answered(FALSE) => SkippedInStep]_vars

C5_Witness ==
    /\ pc = "loop"
    /\ Len(log) >= 2
    /\ log[Len(log) - 1] = [op |-> "answer", idx |-> idx - 1, overwrite |-> FALSE]
    /\ log[Len(log)].op = "push"
    /\ log[Len(log)].list = "filesSkipped"
    /\ idx <= Len(files)

\* ------------------------------------------------------------------------
\* C6
\* ------------------------------------------------------------------------

\* C6 as stated: a cancelled prompt skips only its file; the run goes on and
\* returns the manifest, so it is never rejected because of the cancellation.
C6_CancelSkipsOnlyThatFile ==
    \A k \in 1..Len(log) : log[k].op = "cancel" => pc # "failed"

\* ------------------------------------------------------------------------
\* C7
\* ------------------------------------------------------------------------

\* C7: files are processed one at a time in input order: the effects in the
\* log are in the order of their files, none belongs to a file after the one
\* being processed, prompts are issued in input order, and while a prompt is
\* pending nothing has been written or created for its file and no step
\* changes the file system.
C7_OneFileAtATime ==
    /\ [](/\ \A k \in 1..Len(log) : log[k].idx <= idx
          /\ \A k, m \in 1..Len(log) : k < m => log[k].idx <= log[m].idx
          /\ \A k, m \in 1..Len(Events("prompt")) :
                 k < m => Events("prompt")[k].idx < Events("prompt")[m].idx
          /\ pc = "confirm" =>
                 /\ \A k \in 1..Len(log) :
                        log[k].idx = idx => log[k].op = "prompt"
                 /\ filePath = TargetPath(files, idx, config, projectInfo)
                 /\ content = NewText(idx))
    /\ [][(pc = "confirm" \/ pc' = "confirm") => (fs' = fs /\ dirs' = dirs)]_vars

C7_Witness ==
    /\ pc = "confirm"
    /\ idx = 2
    /\ Len(Events("prompt")) = 2
    /\ Events("write") = <<>>

\* ------------------------------------------------------------------------
\* C8
\* ------------------------------------------------------------------------

\* The paths the log enters into one list of the manifest, in order.
RECURSIVE PathsOf(_)
PathsOf(entries) ==
    IF entries = <<>> THEN <<>> ELSE <<Head(entries).path>> \o PathsOf(Tail(entries))

Entered(list) == PathsOf(SelectSeq(Events("push"), LAMBDA e : e.list = list))

\* C8: the three lists hold the entries made for the files, and no file of
\* the list has more than one entry in them.
C8_OneEntryPerFile ==
    /\ filesCreated = Entered("filesCreated")
    /\ filesUpdated = Entered("filesUpdated")
    /\ filesSkipped = Entered("filesSkipped")
    /\ \A k, m \in 1..Len(Events("push")) :
           k # m => Events("push")[k].idx # Events("push")[m].idx

C8_Witness ==
    /\ pc = "done"
    /\ Len(filesSkipped) = 1
    /\ Len(filesCreated) + Len(filesUpdated) = 1

\* ------------------------------------------------------------------------
\* C9
\* ------------------------------------------------------------------------

\* The file has no content, or resolveFilePath gives it no path.
NotApplicable(i) ==
    files[i].content = "" \/ ResolvedPath(files, i, config, projectInfo) = ""

\* C9: a file without content or without a resolved path leaves no trace: no
\* write, directory, prompt or manifest entry is made for it, and the step
\* that meets it goes on to the next file.
C9_ExcludedLeavesNoTrace ==
    /\ [][(pc = "loop" /\ idx <= Len(files) /\ NotApplicable(idx)) =>
              /\ idx' = idx + 1
              /\ pc' = "loop"
              /\ UNCHANGED <<fs, dirs, manifest, log>>]_vars
    /\ [][(Len(log') > Len(log) \/ fs' # fs \/ dirs' # dirs \/ Manifest' # Manifest)
              => (run' = "second" /\ run = "first") \/ ~NotApplicable(idx)]_vars
    /\ [](\A k \in 1..Len(log) : log[k].idx <= idx /\ (log[k].idx = idx => pc # "loop"))

C9_Witness ==
    /\ pc = "done"
    /\ Len(files) = 2
    /\ files[1].content # ""
    /\ NotApplicable(1)
    /\ filesCreated # <<>>

\* ------------------------------------------------------------------------
\* C10
\* ------------------------------------------------------------------------

\* The last write to a path among the writes of this run.
LastWriteTo(p) ==
    LET w == Events("write")
        at == {k \in 1..Len(w) : w[k].path = p}
    IN  w[CHOOSE k \in at : \A m \in at : m <= k]

\* C10: every write puts the pipeline's output at the file's resolved path,
\* where it replaces what was there, and is followed by the file's manifest
\* entry: in filesUpdated if a file was at the path before the write, in
\* filesCreated otherwise; no other entry is made in those two lists.
C10_WriteAndRecord ==
    /\ \A k \in 1..Len(log) :
           log[k].op = "write" =>
               /\ log[k].text = NewText(log[k].idx)
               /\ log[k].path = TargetPath(files, log[k].idx, config, projectInfo)
               /\ fs[log[k].path] = LastWriteTo(log[k].path).text
               /\ k < Len(log)
               /\ log[k + 1] = [op |-> "push", idx |-> log[k].idx,
                                list |-> IF log[k].existed THEN "filesUpdated"
                                         ELSE "filesCreated",
                                path |-> Relative(log[k].path)]
    /\ \A k \in 1..Len(log) :
           (log[k].op = "push" /\ log[k].list # "filesSkipped") =>
               (k > 1 /\ log[k - 1].op = "write")

C10_Witness ==
    /\ pc = "done"
    /\ Len(filesCreated) = 1
    /\ Len(filesUpdated) = 1
    /\ \E k \in 1..Len(log) :
           log[k].op = "write" /\ log[k].text # files[log[k].idx].content

\* ------------------------------------------------------------------------
\* C11
\* ------------------------------------------------------------------------

\* The positions in files of the files whose entries the log makes in one
\* list of the manifest, in the order the entries are made.
IndicesOf(list) ==
    LET entries == SelectSeq(Events("push"), LAMBDA e : e.list = list)
    IN  [k \in 1..Len(entries) |-> entries[k].idx]

Increasing(q) == \A k, m \in 1..Len(q) : k < m => q[k] < q[m]

\* C11: within filesCreated, filesUpdated and filesSkipped the entries stand
\* in the order of their files in the input list: the k-th entry of a list
\* is the k-th entry made for it, and the entries are made for files of
\* increasing position.
C11_EntriesInInputOrder ==
    /\ filesCreated = Entered("filesCreated") /\ Increasing(IndicesOf("filesCreated"))
    /\ filesUpdated = Entered("filesUpdated") /\ Increasing(IndicesOf("filesUpdated"))
    /\ filesSkipped = Entered("filesSkipped") /\ Increasing(IndicesOf("filesSkipped"))

C11_Witness ==
    /\ pc = "done"
    /\ IndicesOf("filesCreated") = <<1, 2>>
    /\ filesCreated[1] # filesCreated[2]

\* ------------------------------------------------------------------------
\* C12
\* ------------------------------------------------------------------------

\* The paths of the files of the list that is resolved.
SiblingPaths == [k \in 1..Len(call.files) |-> call.files[k].path]

\* The i-th file of the list lies directly in the common root findCommonRoot
\* infers for it.
InCommonRoot(i) ==
    LET root == findCommonRoot(SiblingPaths, call.files[i].path)
    IN  root # "" /\ root = "/" \o PathDirname(call.files[i].path)

\* C12 as stated: files of one component that share a common root land
\* together: two files that lie directly in the same common root are given
\* paths in one directory of the project, whatever their kinds are.
C12_SiblingsLandTogether ==
    (call.fn = "resolveFiles" /\ result # <<>>) =>
        \A i, j \in 1..Len(call.files) :
            (/\ InCommonRoot(i)
             /\ InCommonRoot(j)
             /\ PathDirname(call.files[i].path) = PathDirname(call.files[j].path))
            => PathDirname(result[1][i]) = PathDirname(result[1][j])

\* ------------------------------------------------------------------------
\* C13
\* ------------------------------------------------------------------------

\* What the framework table makes of the target app/<mid>/page<ext>.
RouteOf(mid, ext, framework) ==
    CASE framework = "next-app"     -> Join(<<"app">> \o mid \o <<"page" \o ext>>, "/")
      [] framework = "next-pages"   -> Join(<<"pages">> \o mid, "/") \o ext
      [] framework = "react-router" -> Join(<<"app", "routes">> \o mid, "/") \o ext
      [] framework = "laravel"      -> Join(<<"resources", "js", "pages">> \o mid, "/") \o ext
      [] OTHER                      -> ""

\* C13: for a target app/<segments>/page.<ext>, resolvePageTarget returns the
\* target itself under next-app, and under next-pages, react-router and
\* laravel the target with its leading app/ replaced by pages/, app/routes/
\* and resources/js/pages/ and its trailing /page removed; for an absent or
\* any other framework it returns "" for every target.
C13_PageTargetFollowsTable ==
    (call.fn = "resolvePageTarget" /\ result # <<>>) =>
        /\ call.ext # "" => result[1] = RouteOf(call.mid, call.ext, call.framework)
        /\ (call.ext # "" /\ call.framework = "next-app") => result[1] = call.target
        /\ call.framework \notin Frameworks => result[1] = ""

C13_Witness ==
    /\ call.fn = "resolvePageTarget"
    /\ call.target = "app/s/page/page.tsx"
    /\ call.framework = "react-router"
    /\ result = <<"app/routes/s/page.tsx">>

\* ------------------------------------------------------------------------
\* C14
\* ------------------------------------------------------------------------

\* A direct call of resolveFilePath has returned.
Resolved == call.fn = "resolveFilePath" /\ result # <<>>

\* The project root of the call.
Cwd == call.config.resolvedPaths.cwd

\* The target with a leading "src/" removed, and nothing else.
WithoutLeadingSrc(target) == IF StartsWith(target, "src/") THEN DropTo(target, 5) ELSE target

\* The target the general rule places: for a page, the route rewriter's.
PlacedTarget ==
    IF call.file.type = "registry:page"
    THEN resolvePageTarget(call.file.target, call.options.framework)
    ELSE call.file.target

\* C14 as stated: for an explicit target that does not start with ~/ (and is
\* no template data target) resolveFilePath removes only a leading "src/" of
\* the target, rewritten for a page, and puts the rest under cwd/src when
\* isSrcDir is true and under cwd otherwise; a later "src/" is kept.
C14_OnlyLeadingSrcStripped ==
    (Resolved /\ call.shape = "target" /\ PlacedTarget # "") =>
        result[1] = Cwd \o (IF call.options.isSrcDir THEN "/src/" ELSE "/")
                        \o WithoutLeadingSrc(PlacedTarget)

\* ------------------------------------------------------------------------
\* C15
\* ------------------------------------------------------------------------

\* C15: for a target ~/<rest> of a file the template rules do not catch,
\* resolveFilePath returns cwd/<rest>, whatever isSrcDir, the framework and
\* the file's kind are: a page is neither rewritten nor excluded.
C15_HomeTargetUnderCwd ==
    (Resolved /\ call.shape = "home") => result[1] = Cwd \o "/" \o Join(call.parts.rest, "/")

C15_Witness ==
    /\ Resolved
    /\ call.file.target = "~/app/page.tsx"
    /\ call.file.type = "registry:page"
    /\ call.options = [isSrcDir |-> TRUE, framework |-> "", commonRoot |-> ""]
    /\ result = <<"/proj/app/page.tsx">>

\* ------------------------------------------------------------------------
\* C16
\* ------------------------------------------------------------------------

\* The base directory joined with what follows, in the file's segments, the
\* first segment equal to the base directory's last segment; with the file's
\* last segment when no segment is equal to it.
PlacedUnder(base, segments) ==
    LET hits == {i \in 1..Len(segments) : segments[i] = PathBasename(base)}
    IN  IF hits = {} THEN base \o "/" \o segments[Len(segments)]
        ELSE LET first == CHOOSE i \in hits : \A j \in hits : i <= j
             IN  IF first = Len(segments) THEN base
                 ELSE base \o "/" \o Join(SubSeq(segments, first + 1, Len(segments)), "/")

\* A direct call of resolveFilePath for a file without a target has
\* returned.
ResolvedWithoutTarget == Resolved /\ call.shape \in {"default", "template"}

\* C16 as stated: every file with no explicit target is placed in its kind's
\* base directory, at the part of its path that follows the segment equal to
\* the base directory's last segment, or at its basename when there is none.
C16_DefaultPlacement ==
    ResolvedWithoutTarget =>
        result[1] = PlacedUnder(resolveFileTargetDirectory(call.file, call.config),
                                call.parts.segments)

\* The template rule catches the file: its kind is not page and its path
\* has a part tiptap-templates/<template-name>/.
CaughtByTemplateRule == call.shape = "template" /\ call.file.type # "registry:page"

\* C16 amended: a file with no explicit target that the template rule does
\* not catch is placed in its kind's base directory, at the part of its path
\* that follows the first segment equal to the base directory's last
\* segment, or at its basename when there is none.
C16_DefaultPlacementOutsideTemplates ==
    (ResolvedWithoutTarget /\ ~CaughtByTemplateRule) =>
        result[1] = PlacedUnder(resolveFileTargetDirectory(call.file, call.config),
                                call.parts.segments)

C16_Witness ==
    /\ Resolved
    /\ call.file.path = "lib/x/b.tsx"
    /\ call.file.type = "registry:lib"
    /\ result = <<"/proj/src/lib/x/b.tsx">>

\* ------------------------------------------------------------------------
\* C17
\* ------------------------------------------------------------------------

\* The segments with one leading directory "components" removed.
WithoutLeadingComponents(rest) ==
    IF Len(rest) > 1 /\ rest[1] = "components" THEN Tail(rest) ELSE rest

\* C17: a file without a target, of a kind other than page, whose path has
\* a part tiptap-templates/<template-name>/<rest> is placed at
\* <components>/tiptap-templates/<template-name>/<rest>, with one leading
\* components/ of <rest> removed, whatever base directory its kind has.
C17_TemplatePlacement ==
    (Resolved /\ CaughtByTemplateRule) =>
        result[1] = call.config.resolvedPaths.components \o "/tiptap-templates/simple/"
                        \o Join(WithoutLeadingComponents(call.parts.rest), "/")

C17_Witness ==
    /\ Resolved
    /\ call.file.path = "x/tiptap-templates/simple/components/components/a.tsx"
    /\ call.file.type = "registry:ui"
    /\ result = <<"/proj/src/components/tiptap-templates/simple/components/a.tsx">>

\* ------------------------------------------------------------------------
\* C18
\* ------------------------------------------------------------------------

\* C18 as stated: a template file whose target is <head>/data/<suffix> is
\* placed at <components>/tiptap-templates/<template-name>/data/<suffix>,
\* <suffix> being all of the target after its first "/data/", whatever the
\* head of the target, isSrcDir, the framework and the kind are.
C18_DataPlacement ==
    (Resolved /\ call.shape = "data") =>
        result[1] = call.config.resolvedPaths.components \o "/tiptap-templates/simple/data/"
                        \o Join(call.parts.suffix, "/")

\* ------------------------------------------------------------------------
\* C19
\* ------------------------------------------------------------------------

\* The path updateFiles is to use for what resolveFilePath returned: with
\* config.tsx false a final .tsx turned into .jsx and a final .ts into .js,
\* the path itself otherwise.
PathToUse(resolved) ==
    IF config.tsx THEN resolved
    ELSE IF EndsWith(resolved, ".tsx") THEN SubSeq(resolved, 1, Len(resolved) - 4) \o ".jsx"
    ELSE IF EndsWith(resolved, ".ts") THEN SubSeq(resolved, 1, Len(resolved) - 3) \o ".js"
    ELSE resolved

\* C19: the path updateFiles tests for existence, writes and reports for a
\* file is the path resolveFilePath returned, with a final .tsx replaced by
\* .jsx and a final .ts by .js when config.tsx is false, and unchanged when
\* config.tsx is true or the path ends otherwise. The test for existence is
\* looked at when it has just been made, the write and the entry of a file
\* when the loop has just moved on from it.
C19_ExtensionDowngraded ==
    /\ pc = "transform" =>
           /\ filePath = PathToUse(ResolvedPath(files, idx, config, projectInfo))
           /\ existingFile = (filePath \in DOMAIN fs)
    /\ (pc = "loop" /\ log # <<>> /\ log[Len(log)].idx = idx - 1) =>
           LET used == PathToUse(ResolvedPath(files, idx - 1, config, projectInfo))
           IN  \A k \in 1..Len(log) :
                   /\ (log[k].idx = idx - 1 /\ log[k].op = "write") => log[k].path = used
                   /\ (log[k].idx = idx - 1 /\ log[k].op = "push") =>
                          log[k].path = Relative(used)

C19_Witness ==
    /\ pc = "done"
    /\ ~config.tsx
    /\ filesCreated = <<"src/pages/s.ts.jsx", "src/components/tiptap-ui/b.jsx">>
    /\ DOMAIN fs = {"/proj/src/pages/s.ts.jsx", "/proj/src/components/tiptap-ui/b.jsx"}

\* ------------------------------------------------------------------------
\* C20
\* ------------------------------------------------------------------------

\* Another path of the call lies in or below the first k directories of the
\* needle.
SharedByAnother(k) ==
    \E m \in 1..Len(call.otherDirs) :
        /\ Len(call.otherDirs[m]) >= k
        /\ SubSeq(call.otherDirs[m], 1, k) = SubSeq(call.needleDir, 1, k)

\* The root the claim gives the needle of the call.
ClosestSharedAncestor ==
    LET shared == {k \in 1..Len(call.needleDir) : SharedByAnother(k)}
    IN  IF call.needleDir = <<>> THEN ""
        ELSE IF shared = {} THEN "/" \o Join(call.needleDir, "/")
        ELSE "/" \o Join(SubSeq(call.needleDir, 1,
                                 CHOOSE k \in shared : \A j \in shared : j <= k), "/")

\* C20: findCommonRoot returns, with a leading slash, the longest run of
\* leading directories of the needle that another path of the list lies in
\* or below; the needle's own directory when no other path shares any, also
\* when the list holds the needle alone; and "" when the needle has no
\* directory.
C20_ClosestSharedAncestor ==
    (call.fn = "findCommonRoot" /\ result # <<>>) => result[1] = ClosestSharedAncestor

C20_Witness ==
    /\ call.fn = "findCommonRoot"
    /\ call.needle = "/a/b/n.ts"
    /\ call.paths = <<"a/b/n.ts", "b/f.ts", "a/a/f.ts">>
    /\ result = <<"/a">>

\* ------------------------------------------------------------------------
\* C21
\* ------------------------------------------------------------------------

\* The entry of resolvedPaths the claim gives each kind.
EntryOfKind ==
    [ui |-> "tiptapUi", ui_primitive |-> "tiptapUiPrimitives",
     extension |-> "tiptapExtensions", node |-> "tiptapNodes", icon |-> "tiptapIcons",
     hook |-> "hooks", lib |-> "lib", context |-> "contexts", style |-> "styles",
     template |-> "components", component |-> "components"]

\* "registry:<kind>" as a field name of EntryOfKind.
KindOf(type) ==
    IF StartsWith(type, "registry:")
    THEN ReplaceAll(DropTo(type, Len("registry:") + 1), "-", "_")
    ELSE type

\* C21: resolveFileTargetDirectory, called without override, returns for a
\* file of kind ui, ui-primitive, extension, node, icon, hook, lib, context
\* or style the resolvedPaths entry of that kind, for template and component
\* the components entry, and for every other or absent kind (page too) the
\* components entry.
C21_KindSelectsBaseDirectory ==
    (call.fn = "resolveFileTargetDirectory" /\ result # <<>>) =>
        LET kind == KindOf(call.file.type)
        IN  result[1] = IF kind \in DOMAIN EntryOfKind
                        THEN call.config.resolvedPaths[EntryOfKind[kind]]
                        ELSE call.config.resolvedPaths.components

C21_Witness ==
    /\ call.fn = "resolveFileTargetDirectory"
    /\ call.file.type = "registry:style"
    /\ call.config.resolvedPaths = SiteResolvedPaths
    /\ result = <<"/site/styles">>

\* ------------------------------------------------------------------------
\* C22
\* ------------------------------------------------------------------------

\* resolveFilePath for the file in hand by itself: its descriptor, the
\* config, isSrcDir and the framework, and nothing of the list or the run.
ResolvedAlone ==
    resolveFilePath(files[idx], config,
                    [isSrcDir |-> projectInfo.isSrcDir, framework |-> projectInfo.framework,
                     commonRoot |-> ""])

\* C22: the path a file is resolved to depends on its descriptor, the config,
\* isSrcDir and the framework only: whenever the loop has resolved a file,
\* in the first run or the second, whatever files came before it, whatever
\* became of them and whatever is on disk, the path in hand is the one
\* resolveFilePath gives for that file by itself.
C22_ResolutionIgnoresRunState ==
    pc = "transform" =>
        /\ ResolvedAlone # ""
        /\ targetDir = PathDirname(ResolvedAlone)
        /\ filePath = IF config.tsx THEN ResolvedAlone ELSE DowngradeExtension(ResolvedAlone)

C22_Witness ==
    /\ pc = "transform"
    /\ run = "second"
    /\ idx = 2
    /\ files[1].path = "tiptap-ui/b.tsx"
    /\ files[2].path = "b.tsx"
    /\ filesUpdated = <<"src/components/tiptap-ui/b.tsx">>
    /\ filePath = "/proj/src/components/tiptap-ui/b.tsx"

\* ------------------------------------------------------------------------
\* C23
\* ------------------------------------------------------------------------

\* The directory is a path prefix of p.
Inside(dir, p) == p = dir \/ StartsWith(p, dir \o "/")

\* The project root and the configured base directories of the call.
ConfiguredDirectories ==
    {call.config.resolvedPaths[entry] : entry \in DOMAIN call.config.resolvedPaths}

\* C23: every non-empty path resolveFilePath returns lies inside the project
\* root or inside one of the configured base directories, also for file
\* paths and targets with ".." segments.
C23_StaysInsideProject ==
    (call.fn = "resolveFilePath" /\ result # <<>> /\ result[1] # "") =>
        \E dir \in ConfiguredDirectories : Inside(dir, result[1])

\* ------------------------------------------------------------------------
\* C24
\* ------------------------------------------------------------------------

\* The run emitted the notice.
NoticeEmitted ==
    \E k \in 1..Len(output) :
        "text" \in DOMAIN output[k] /\ output[k].text = "No files updated."

\* C24: a run that ends with filesCreated, filesUpdated and filesSkipped all
\* empty has emitted the notice "No files updated.", also when the list of
\* files is empty or every file was passed over.
C24_EmptyManifestIsAnnounced ==
    (pc = "done" /\ filesCreated = <<>> /\ filesUpdated = <<>> /\ filesSkipped = <<>>)
        => NoticeEmitted

\* ------------------------------------------------------------------------
\* C25
\* ------------------------------------------------------------------------

\* The only calls of the model that the data rule of template files catches
\* are those built for it.
CaughtByDataRule == call.shape = "data"

\* The case in which the claim has resolveFilePath return "".
PageWithoutRoute ==
    /\ call.file.type = "registry:page"
    /\ call.file.target # ""
    /\ ~StartsWith(call.file.target, "~/")
    /\ ~CaughtByDataRule
    /\ call.options.framework \notin {"next-app", "next-pages", "react-router", "laravel"}

\* C25: resolveFilePath returns "" exactly when the file is of kind page,
\* has a target that does not start with ~/ and that the data rule of
\* template files does not catch, and the framework is absent or none of
\* next-app, next-pages, react-router and laravel; in every other case it
\* returns a non-empty path.
C25_EmptyExactlyForPageWithoutRoute ==
    (call.fn = "resolveFilePath" /\ result # <<>>) => ((result[1] = "") <=> PageWithoutRoute)

C25_Witness ==
    /\ call.fn = "resolveFilePath"
    /\ call.file.type = "registry:page"
    /\ call.file.target = "app/s/page.tsx"
    /\ call.options.framework = "astro"
    /\ result = <<"">>

\* ------------------------------------------------------------------------
\* C26
\* ------------------------------------------------------------------------

\* The entries made in filesCreated and filesUpdated, in the order they were
\* made.
WrittenEntries == SelectSeq(Events("push"), LAMBDA e : e.list # "filesSkipped")

\* The k-th entry of the log is the last one of its list so far, and the
\* list holds its path at that place.
HeldByItsList(k) ==
    LET list == log[k].list
        place == Len(SelectSeq(SubSeq(log, 1, k), LAMBDA e : e.op = "push" /\ e.list = list))
        held == IF list = "filesCreated" THEN filesCreated ELSE filesUpdated
    IN  place <= Len(held) /\ held[place] = log[k].path

\* C26: at every moment of a run there are as many writes as entries in
\* filesCreated and filesUpdated together; each write is the write of one
\* of these entries, made for the same file at the path the entry names;
\* and the processing of a file that was recorded in filesSkipped made no
\* write.
C26_WritesMatchEntries ==
    /\ LET writes == Events("write")
           entries == WrittenEntries
       IN  /\ Len(writes) = Len(filesCreated) + Len(filesUpdated)
           /\ Len(writes) = Len(entries)
           /\ \A j \in 1..Len(entries) :
                  /\ entries[j].idx = writes[j].idx
                  /\ entries[j].path = Relative(writes[j].path)
    /\ \A k \in 1..Len(log) :
           /\ (log[k].op = "push" /\ log[k].list # "filesSkipped") => HeldByItsList(k)
           /\ (log[k].op = "push" /\ log[k].list = "filesSkipped") =>
                  \A m \in 1..Len(log) : log[m].op = "write" => log[m].idx # log[k].idx

C26_Witness ==
    /\ pc = "done"
    /\ Len(Events("write")) = 1
    /\ filesCreated = <<"src/components/tiptap-ui/b.tsx">>
    /\ filesUpdated = <<>>
    /\ filesSkipped = <<"src/components/tiptap-ui/b.tsx">>

\* ------------------------------------------------------------------------
\* C27
\* ------------------------------------------------------------------------

\* The entries of the three lists, one after the other.
AllEntries == filesCreated \o filesUpdated \o filesSkipped

\* C27: when a run has returned, no project-relative path stands more than
\* once in filesCreated, filesUpdated and filesSkipped taken together, also
\* when two files of the list resolve to one path.
C27_NoPathListedTwice ==
    pc = "done" =>
        \A k, m \in 1..Len(AllEntries) : k # m => AllEntries[k] # AllEntries[m]

\* ------------------------------------------------------------------------
\* C28
\* ------------------------------------------------------------------------

\* The file of the call with its target written without the leading src/.
WithoutSrcPrefix ==
    [call.file EXCEPT !.target = PageTargetOf(call.parts.mid, call.parts.ext)]

\* C28: a page file whose target is src/app/<segments>/page<ext> resolves,
\* under each of the four frameworks and in both layouts, to the path that
\* the target app/<segments>/page<ext> resolves to.
C28_SrcPrefixMakesNoDifference ==
    (/\ call.fn = "resolveFilePath"
     /\ result # <<>>
     /\ call.shape = "page"
     /\ call.parts.src
     /\ call.options.framework \in Frameworks)
        => result[1] = resolveFilePath(WithoutSrcPrefix, call.config, call.options)

\* ------------------------------------------------------------------------
\* C29
\* ------------------------------------------------------------------------

\* p is the directory followed by at least one further segment.
StrictlyInside(dir, p) == StartsWith(p, dir \o "/") /\ Len(p) > Len(dir) + 1

\* C29: for a file without a target that is not a template file,
\* resolveFilePath returns a path strictly inside the base directory of the
\* file's kind, never that directory itself, whatever the segments of the
\* file's path.
C29_StrictlyInsideBaseDirectory ==
    (/\ call.fn = "resolveFilePath"
     /\ result # <<>>
     /\ call.file.target = ""
     /\ call.shape # "template")
        => StrictlyInside(resolveFileTargetDirectory(call.file, call.config), result[1])

\* ------------------------------------------------------------------------
\* C30
\* ------------------------------------------------------------------------

\* The header of the summary for a list is there exactly when the list has
\* entries, and gives the list's length with the noun "file" for one entry
\* and "files" for more.
HeaderFits(header, list) ==
    LET at == {k \in 1..Len(output) :
                  "header" \in DOMAIN output[k] /\ output[k].header = header}
    IN  IF list = <<>> THEN at = {}
        ELSE \E k \in at :
                 /\ at = {k}
                 /\ output[k].count = Len(list)
                 /\ output[k].noun = IF Len(list) = 1 THEN "file" ELSE "files"

\* C30: in the summary of a run that has returned, the Created, Updated and
\* Skipped headers each give the length of their own list, with the noun
\* "file" exactly when that list has one entry and "files" otherwise.
C30_HeadersFitTheirLists ==
    pc = "done" =>
        /\ HeaderFits("Created", filesCreated)
        /\ HeaderFits("Updated", filesUpdated)
        /\ HeaderFits("Skipped", filesSkipped)

====
